---- MODULE Spec2Model ----
(***************************************************************************)
(* TopticaAdapter (pymeasure/instruments/toptica/adapters.py): a line      *)
(* oriented request/acknowledge adapter on top of a VISA serial transport. *)
(* Strings that the code inspects (reply lines) are sequences of one       *)
(* character strings; command texts are only stored and forwarded and are  *)
(* kept as plain strings.                                                  *)
(***************************************************************************)
EXTENDS Naturals, Integers, Sequences, FiniteSets, Bags, TLC

\* ------------------------------------------------------------------ bounds
MaxLen == 7            \* longest reply handed to extract_value
MaxBuf == 3            \* most lines sent and not yet read when a call starts
MaxBanner == 1         \* most lines of boot banner buffered at construction
MaxInitResp == 1       \* most lines sent for 'echo off' and 'prom off'
MaxData == 1           \* longest free-text data line of a conforming reply
MaxPending == 5        \* the same under SpecConforming (two replies)
MaxCallers == 2        \* most calls in progress on the adapter at one time
MaxCalls == 2          \* most write, read, ask and check_acknowledgement
                       \* calls made on one adapter

\* ------------------------------------------------------------- wire format
\* lines of the longest reply to one command: echo, data line, acknowledgement.
\* The instrument sends at most this many lines for one command; longer runs
\* of pending lines are the lines earlier calls left unread (MaxBuf).
MaxResp == 3

\* -------------------------------------------------------------- characters
\* Python's \w on str (ASCII part): letters, digits, underscore
WordChars ==
  {"a","b","c","d","e","f","g","h","i","j","k","l","m","n","o","p","q","r",
   "s","t","u","v","w","x","y","z","A","B","C","D","E","F","G","H","I","J",
   "K","L","M","N","O","P","Q","R","S","T","U","V","W","X","Y","Z","0","1",
   "2","3","4","5","6","7","8","9","_"}

\* Python's \s on str (ASCII part): space, \t, \n, \r, \f, the vertical tab
\* 0x0b and the separators 0x1c 0x1d 0x1e 0x1f (the last five are written as
\* the characters themselves)
SpaceChars ==
  {" ", "\t", "\n", "\r", "\f", "", "", "", "", ""}

\* the characters replies are drawn from when extract_value is explored
Alphabet == {"p", "2", " ", "=", "."}

Replies == UNION {[1..n -> Alphabet] : n \in 0..MaxLen}

\* ------------------------------------------------------------ line literals
EMPTY == <<>>                                   \* ''
OK == <<"[", "O", "K", "]">>                    \* '[OK]'
DATA == <<"x", " ", "=", " ", "1", ".", "5">>   \* 'x = 1.5'

Lines == {EMPTY, OK, DATA}

Commands == {"set power 5", "power?"}

NoCommand == "<unset>"        \* self.lastcommand before the first write

\* ------------------------------------------------------- regular expression
RECURSIVE RunEnd(_, _, _)
\* greedy X+ / X* from position i: index of the last character of the
\* maximal run of characters of class S starting at i (i-1 when it is empty)
RunEnd(r, i, S) ==
  IF i <= Len(r) /\ r[i] \in S THEN RunEnd(r, i + 1, S) ELSE i - 1

\* the pattern capturing the rest of the line, \w+\s*=\s*(.+)
_reg_value_rest_of_line(r, i) ==
  LET e1 == RunEnd(r, i, WordChars)
      e2 == RunEnd(r, e1 + 1, SpaceChars)
      e3 == RunEnd(r, e2 + 2, SpaceChars)
      ok == /\ e1 >= i
            /\ e2 + 1 <= Len(r) /\ r[e2 + 1] = "="
            /\ e3 + 1 <= Len(r)
  IN [ok |-> ok, group1 |-> IF ok THEN SubSeq(r, e3 + 1, Len(r)) ELSE <<>>]

\* the pattern with optional whitespace \w+\s*=\s*(\w+)
_reg_value_optws(r, i) ==
  LET e1 == RunEnd(r, i, WordChars)
      e2 == RunEnd(r, e1 + 1, SpaceChars)
      e3 == RunEnd(r, e2 + 2, SpaceChars)
      e4 == RunEnd(r, e3 + 1, WordChars)
      ok == /\ e1 >= i
            /\ e2 + 1 <= Len(r) /\ r[e2 + 1] = "="
            /\ e4 > e3
  IN [ok |-> ok, group1 |-> IF ok THEN SubSeq(r, e3 + 1, e4) ELSE <<>>]

\* _reg_value = re.compile(r"\w+\s+=\s+(\w+)") matched with its first
\* character at position i.  The classes \w, \s and '=' are disjoint, so the
\* greedy runs are the only way to match and group 1 is the maximal word run.
_reg_value(r, i) ==
  LET e1 == RunEnd(r, i, WordChars)
      e2 == RunEnd(r, e1 + 1, SpaceChars)
      e3 == RunEnd(r, e2 + 2, SpaceChars)
      e4 == RunEnd(r, e3 + 1, WordChars)
      ok == /\ e1 >= i
            /\ e2 > e1
            /\ e2 + 1 <= Len(r) /\ r[e2 + 1] = "="
            /\ e3 >= e2 + 2
            /\ e4 > e3
  IN [ok |-> ok, group1 |-> IF ok THEN SubSeq(r, e3 + 1, e4) ELSE <<>>]

\* self._reg_value.search(reply): the leftmost match, or no match
search(reply) ==
  LET starts == {i \in 1..Len(reply) : _reg_value(reply, i).ok}
  IN IF starts = {} THEN [ok |-> FALSE, group1 |-> <<>>]
     ELSE _reg_value(reply, CHOOSE i \in starts : \A j \in starts : i <= j)

extract_value(reply) ==
  LET r == search(reply)
  IN IF r.ok THEN r.group1 ELSE reply

\* -------------------------------------------------------------------- state
VARIABLES
  phase,        \* "new" (before __init__), "ready", "failed" (__init__ raised)
  inbuf,        \* lines the instrument sent, not yet read or flushed
  lastcommand,  \* self.lastcommand
  threads,      \* the write, read and ask calls in progress: for each its
                \* arguments, the line it is at, its local variables and
                \* the transport events it has made so far
  call,         \* the call that has just come back to its caller, if one
                \* did in the last step, and its inputs
  outcome,      \* how that call ended: return value or raised error
  events,       \* transport events of that call, in order
  preprocess_reply,  \* the reply hook the adapter was constructed with
  issued,       \* history: command of the most recent write/ask call
  ncalls,       \* history: number of calls made since construction
  overlapped,   \* history: some call began while another was in progress
  clean,        \* history: no line was pending when construction returned
  reply,        \* argument of extract_value
  value,        \* result of extract_value(reply)
  applied       \* whether extract_value has been applied to reply

vars == <<phase, inbuf, lastcommand, preprocess_reply, threads, call, outcome,
          events, issued, ncalls, overlapped, clean, reply, value, applied>>

adapterVars == <<phase, inbuf, lastcommand, preprocess_reply, threads, call,
                 outcome, events, issued, ncalls, overlapped, clean>>

NoCall == [name |-> "none", cmd |-> NoCommand, check_ack |-> FALSE,
           arg |-> EMPTY, resp |-> <<>>, drop |-> 0, arr |-> <<>>,
           afterAck |-> FALSE]
NoOutcome == [kind |-> "none", ret |-> <<>>, cmd |-> NoCommand, msg |-> EMPTY]

\* ------------------------------------------- extract_value on its own
InitExtract ==
  /\ phase = "new" /\ inbuf = <<>> /\ lastcommand = NoCommand
  /\ call = NoCall /\ outcome = NoOutcome /\ events = <<>>
  /\ preprocess_reply = "none"
  /\ issued = NoCommand /\ threads = EmptyBag /\ ncalls = 0
  /\ overlapped = FALSE /\ clean = FALSE
  /\ reply \in Replies /\ value = <<>> /\ applied = FALSE

ExtractValue ==
  /\ ~applied
  /\ value' = extract_value(reply)
  /\ applied' = TRUE
  /\ UNCHANGED <<reply, adapterVars>>

NextExtract == ExtractValue

SpecExtract == InitExtract /\ [][NextExtract]_vars


\* ----------------------------------------------------------- the transport
\* inbuf holds, oldest first, every line the instrument has sent and the
\* adapter has neither read nor flushed: the lines in the transport's input
\* buffer and, behind them, the lines still on their way over the serial
\* line.  A line carries its text and whether the instrument sent it in
\* answer to the most recent command ("cur"), to an earlier one ("old"), or
\* unprovoked before construction ("banner").
Tag(resp, t) == [i \in 1..Len(resp) |-> [txt |-> resp[i], tag |-> t]]

Age(buf) ==
  [i \in 1..Len(buf) |->
     IF buf[i].tag = "cur" THEN [buf[i] EXCEPT !.tag = "old"] ELSE buf[i]]

Responses(n) == UNION {[1..k -> Lines] : k \in 0..n}

write_termination == <<"\r", "\n">>

Ev(e, c, t, g, k) == [ev |-> e, cmd |-> c, txt |-> t, tag |-> g, n |-> k]

NoExc == [kind |-> "none", cmd |-> NoCommand, msg |-> EMPTY]

Raised(a) == a.exc.kind # "none"

\* the transport fails at the a.dropAt-th transport operation of a call (0:
\* at none): the open, a send or a flush fails on the link, a read gets no
\* line within the timeout
Drops(a) == a.dropAt = a.nops + 1

TransportError == [kind |-> "transport", cmd |-> NoCommand, msg |-> EMPTY]

\* VISAAdapter.__init__: opens the transport; when that fails the
\* transport's error propagates
SuperInit(a) ==
  IF Drops(a)
  THEN [a EXCEPT !.exc = TransportError, !.nops = @ + 1, !.ret = <<>>]
  ELSE [a EXCEPT !.nops = @ + 1, !.ret = <<>>]

\* VISAAdapter.write: one line, command plus write termination, goes out;
\* the instrument answers it with the lines resp.  On a failed link nothing
\* goes out and the transport's error propagates.
SuperWrite(a, command, resp) ==
  IF Drops(a)
  THEN [a EXCEPT !.exc = TransportError,
                 !.events = Append(@, Ev("send_failed", command, EMPTY,
                                         "-", 0)),
                 !.nops = @ + 1,
                 !.ret = <<>>]
  ELSE [a EXCEPT !.inbuf = Age(@) \o Tag(resp, "cur"),
                 !.events = Append(@, Ev("send", command, write_termination,
                                         "-", 0)),
                 !.nops = @ + 1,
                 !.ret = <<>>]

\* VISAAdapter.read, the transport's readLine: waits for the next line and
\* returns it, as the instrument sent it, without its termination (write
\* and read compare what it returns with '' and '[OK]'; the reply hook is a
\* setting of the adapter that this read does not consult); when no line
\* comes within the timeout (none was sent, or it is late) the transport's
\* error propagates and a late line stays pending
SuperRead(a) ==
  IF Drops(a) \/ a.inbuf = <<>>
  THEN [a EXCEPT !.exc = TransportError,
                 !.events = Append(@, Ev("timeout", NoCommand, EMPTY, "-", 0)),
                 !.nops = @ + 1,
                 !.ret = <<>>]
  ELSE [a EXCEPT !.inbuf = Tail(@),
                 !.events = Append(@, Ev("read", NoCommand, Head(a.inbuf).txt,
                                         Head(a.inbuf).tag, 0)),
                 !.nops = @ + 1,
                 !.ret = <<Head(a.inbuf).txt>>]

\* the number of pending lines that have reached the input buffer when the
\* next flush of the call runs: a.arr gives it for each flush in turn
Arrived(a) == IF a.nfl + 1 <= Len(a.arr) THEN a.arr[a.nfl + 1] ELSE 0

\* self.flush(): the lines that have reached the input buffer are
\* discarded, the lines still on their way are not; on a failed link the
\* transport's error propagates
flush(a) ==
  IF Drops(a)
  THEN [a EXCEPT !.exc = TransportError,
                 !.events = Append(@, Ev("flush_failed", NoCommand, EMPTY,
                                         "-", 0)),
                 !.nops = @ + 1,
                 !.ret = <<>>]
  ELSE [a EXCEPT !.inbuf = IF Arrived(a) >= Len(@) THEN <<>>
                           ELSE SubSeq(@, Arrived(a) + 1, Len(@)),
                 !.events = Append(@, Ev("flush", NoCommand, EMPTY, "-",
                                         Arrived(a))),
                 !.nops = @ + 1,
                 !.nfl = @ + 1,
                 !.adm = @ /\ Arrived(a) <= Len(a.inbuf),
                 !.ret = <<>>]

\* time.sleep(...)
Sleep(a, what) ==
  [a EXCEPT !.events = Append(@, Ev("sleep", what, EMPTY, "-", 0))]


\* ------------------------------------------------------------- the adapter
\* The adapter holds no lock.  A call is a frame: the adapter and its
\* transport (inbuf, lastcommand), the call's arguments (name, cmd,
\* check_ack), the line it is at (pc) and its local variables (reply, arg).
\* Each method below executes the one statement at a.pc; statements that
\* touch only the frame run together with the shared access before them.
\* Between two statements of a call any other call may run.

\* check_acknowledgement(reply): line 79 compares, line 80 flushes, lines
\* 81-83 raise with self.lastcommand as it is then
check_acknowledgement_flush_always(a, r) ==
  CASE a.pc = "79" ->
         IF r # OK
         THEN [a EXCEPT !.pc = "80", !.arg = r, !.ret = <<>>]
         ELSE [flush(a) EXCEPT !.pc = "return", !.ret = <<>>]
    [] a.pc = "80" -> [flush(a) EXCEPT !.pc = "81"]
    [] OTHER -> [a EXCEPT !.exc = [kind |-> "ack", cmd |-> a.lastcommand,
                                   msg |-> r],
                          !.ret = <<>>]

check_acknowledgement(a, r) ==
  CASE a.pc = "79" ->                            \* if reply != '[OK]':
         IF r # OK
         THEN [a EXCEPT !.pc = "80", !.arg = r, !.ret = <<>>]
         ELSE [a EXCEPT !.pc = "return", !.ret = <<>>]
    [] a.pc = "80" -> [flush(a) EXCEPT !.pc = "81"]          \* self.flush()
    [] OTHER ->                                  \* raise ValueError(...)
         [a EXCEPT !.exc = [kind |-> "ack", cmd |-> a.lastcommand,
                            msg |-> r],
                   !.ret = <<>>]

read_swapped(a) ==
  CASE a.pc = "97" ->
         LET a1 == SuperRead(a)
             a2 == check_acknowledgement([a1 EXCEPT !.pc = "79"], a1.ret[1])
         IN IF Raised(a1) THEN a1
            ELSE IF a2.pc = "return" THEN [a2 EXCEPT !.pc = "98"]
            ELSE a2
    [] a.pc = "98" ->
         LET a2 == SuperRead(a)
         IN IF Raised(a2) THEN a2 ELSE [a2 EXCEPT !.pc = "return"]
    [] OTHER -> check_acknowledgement(a, a.arg)

read(a) ==
  CASE a.pc = "97" ->                            \* reply = super().read()
         LET a1 == SuperRead(a)
         IN IF Raised(a1) THEN a1
            ELSE [a1 EXCEPT !.reply = a1.ret[1], !.pc = "98", !.ret = <<>>]
    [] a.pc = "98" ->        \* self.check_acknowledgement(super().read())
         LET a2 == SuperRead(a)
             a3 == check_acknowledgement([a2 EXCEPT !.pc = "79"], a2.ret[1])
         IN IF Raised(a2) THEN a2
            ELSE IF a3.pc = "return"
            THEN [a3 EXCEPT !.ret = <<a.reply>>]             \* return reply
            ELSE a3
    [] OTHER -> check_acknowledgement(a, a.arg)

EchoError(command, r) == [kind |-> "echo", cmd |-> command, msg |-> r]

write_echo_flush(a, resp) ==
  CASE a.pc = "109" -> [a EXCEPT !.lastcommand = a.cmd, !.pc = "110"]
    [] a.pc = "110" -> [SuperWrite(a, a.cmd, resp) EXCEPT !.pc = "112"]
    [] a.pc = "112" ->
         LET a3 == SuperRead(a)
         IN IF Raised(a3) THEN a3
            ELSE IF a3.ret[1] # EMPTY
            THEN [flush(a3) EXCEPT !.exc = EchoError(a.cmd, a3.ret[1]),
                                   !.ret = <<>>]
            ELSE IF a.check_ack THEN [a3 EXCEPT !.pc = "118", !.ret = <<>>]
            ELSE [a3 EXCEPT !.pc = "return", !.ret = <<>>]
    [] a.pc = "118" ->
         LET a4 == SuperRead(a)
         IN IF Raised(a4) THEN a4
            ELSE check_acknowledgement([a4 EXCEPT !.pc = "79"], a4.ret[1])
    [] OTHER -> check_acknowledgement(a, a.arg)

write_resend(a, resp) ==
  CASE a.pc = "109" -> [a EXCEPT !.lastcommand = a.cmd, !.pc = "110"]
    [] a.pc = "110" ->
         [SuperWrite(SuperWrite(a, a.cmd, <<>>), a.cmd, resp)
            EXCEPT !.pc = "112"]
    [] a.pc = "112" ->
         LET a3 == SuperRead(a)
         IN IF Raised(a3) THEN a3
            ELSE IF a3.ret[1] # EMPTY
            THEN [a3 EXCEPT !.exc = EchoError(a.cmd, a3.ret[1]), !.ret = <<>>]
            ELSE IF a.check_ack THEN [a3 EXCEPT !.pc = "118", !.ret = <<>>]
            ELSE [a3 EXCEPT !.pc = "return", !.ret = <<>>]
    [] a.pc = "118" ->
         LET a4 == SuperRead(a)
         IN IF Raised(a4) THEN a4
            ELSE check_acknowledgement([a4 EXCEPT !.pc = "79"], a4.ret[1])
    [] OTHER -> check_acknowledgement(a, a.arg)

write_ack_first(a, resp) ==
  CASE a.pc = "109" -> [a EXCEPT !.lastcommand = a.cmd, !.pc = "110"]
    [] a.pc = "110" -> [SuperWrite(a, a.cmd, resp) EXCEPT !.pc = "112"]
    [] a.pc = "112" ->
         LET a3 == SuperRead(a)
             a4 == SuperRead(a3)
         IN IF Raised(a3) THEN a3
            ELSE IF a.check_ack /\ ~Raised(a4) /\ a3.ret[1] # EMPTY
            THEN [a4 EXCEPT !.exc = EchoError(a.cmd, a3.ret[1]), !.ret = <<>>]
            ELSE IF a3.ret[1] # EMPTY
            THEN [a3 EXCEPT !.exc = EchoError(a.cmd, a3.ret[1]), !.ret = <<>>]
            ELSE IF a.check_ack THEN [a3 EXCEPT !.pc = "118", !.ret = <<>>]
            ELSE [a3 EXCEPT !.pc = "return", !.ret = <<>>]
    [] a.pc = "118" ->
         LET a4 == SuperRead(a)
         IN IF Raised(a4) THEN a4
            ELSE check_acknowledgement([a4 EXCEPT !.pc = "79"], a4.ret[1])
    [] OTHER -> check_acknowledgement(a, a.arg)

write_no_lastcommand(a, resp) ==
  CASE a.pc = "109" -> [a EXCEPT !.pc = "110"]
    [] a.pc = "110" -> [SuperWrite(a, a.cmd, resp) EXCEPT !.pc = "112"]
    [] a.pc = "112" ->
         LET a3 == SuperRead(a)
         IN IF Raised(a3) THEN a3
            ELSE IF a3.ret[1] # EMPTY
            THEN [a3 EXCEPT !.exc = EchoError(a.cmd, a3.ret[1]), !.ret = <<>>]
            ELSE IF a.check_ack THEN [a3 EXCEPT !.pc = "118", !.ret = <<>>]
            ELSE [a3 EXCEPT !.pc = "return", !.ret = <<>>]
    [] a.pc = "118" ->
         LET a4 == SuperRead(a)
         IN IF Raised(a4) THEN a4
            ELSE check_acknowledgement([a4 EXCEPT !.pc = "79"], a4.ret[1])
    [] OTHER -> check_acknowledgement(a, a.arg)

write_retry_on_timeout(a, resp) ==
  CASE a.pc = "109" -> [a EXCEPT !.lastcommand = a.cmd, !.pc = "110"]
    [] a.pc = "110" -> [SuperWrite(a, a.cmd, resp) EXCEPT !.pc = "112"]
    [] a.pc = "112" ->
         LET t3 == SuperRead(a)
             a3 == IF Raised(t3) /\ a.inbuf = <<>>
                   THEN SuperRead(SuperWrite([t3 EXCEPT !.exc = NoExc],
                                             a.cmd, <<>>))
                   ELSE t3
         IN IF Raised(a3) THEN a3
            ELSE IF a3.ret[1] # EMPTY
            THEN [a3 EXCEPT !.exc = EchoError(a.cmd, a3.ret[1]), !.ret = <<>>]
            ELSE IF a.check_ack THEN [a3 EXCEPT !.pc = "118", !.ret = <<>>]
            ELSE [a3 EXCEPT !.pc = "return", !.ret = <<>>]
    [] a.pc = "118" ->
         LET a4 == SuperRead(a)
         IN IF Raised(a4) THEN a4
            ELSE check_acknowledgement([a4 EXCEPT !.pc = "79"], a4.ret[1])
    [] OTHER -> check_acknowledgement(a, a.arg)

write_records_after_echo(a, resp) ==
  CASE a.pc = "109" -> [a EXCEPT !.pc = "110"]
    [] a.pc = "110" -> [SuperWrite(a, a.cmd, resp) EXCEPT !.pc = "112"]
    [] a.pc = "112" ->
         LET r3 == SuperRead(a)
             a3 == [r3 EXCEPT !.lastcommand = a.cmd]
         IN IF Raised(r3) THEN r3
            ELSE IF a3.ret[1] # EMPTY
            THEN [a3 EXCEPT !.exc = EchoError(a.cmd, a3.ret[1]), !.ret = <<>>]
            ELSE IF a.check_ack THEN [a3 EXCEPT !.pc = "118", !.ret = <<>>]
            ELSE [a3 EXCEPT !.pc = "return", !.ret = <<>>]
    [] a.pc = "118" ->
         LET a4 == SuperRead(a)
         IN IF Raised(a4) THEN a4
            ELSE check_acknowledgement([a4 EXCEPT !.pc = "79"], a4.ret[1])
    [] OTHER -> check_acknowledgement(a, a.arg)

write(a, resp) ==
  CASE a.pc = "109" ->                           \* self.lastcommand = command
         [a EXCEPT !.lastcommand = a.cmd, !.pc = "110"]
    [] a.pc = "110" ->                           \* super().write(command)
         [SuperWrite(a, a.cmd, resp) EXCEPT !.pc = "112"]
    [] a.pc = "112" ->                           \* reply = super().read()
         LET a3 == SuperRead(a)
         IN IF Raised(a3) THEN a3
            ELSE IF a3.ret[1] # EMPTY            \* if reply != '': raise
            THEN [a3 EXCEPT !.exc = EchoError(a.cmd, a3.ret[1]), !.ret = <<>>]
            ELSE IF a.check_ack THEN [a3 EXCEPT !.pc = "118", !.ret = <<>>]
            ELSE [a3 EXCEPT !.pc = "return", !.ret = <<>>]
    [] a.pc = "118" ->       \* self.check_acknowledgement(super().read())
         LET a4 == SuperRead(a)
         IN IF Raised(a4) THEN a4
            ELSE check_acknowledgement([a4 EXCEPT !.pc = "79"], a4.ret[1])
    [] OTHER -> check_acknowledgement(a, a.arg)

ask_no_delay(a, resp) ==
  CASE a.pc \in {"109", "110", "112"} ->
         LET a1 == write(a, resp)
         IN IF ~Raised(a1) /\ a1.pc = "return"
            THEN [a1 EXCEPT !.pc = "97"] ELSE a1
    [] a.pc = "128" -> [a EXCEPT !.pc = "97"]
    [] OTHER -> read(a)

ask(a, resp) ==
  CASE a.pc \in {"109", "110", "112"} ->    \* self.write(command, False)
         LET a1 == write(a, resp)
         IN IF ~Raised(a1) /\ a1.pc = "return"
            THEN [a1 EXCEPT !.pc = "128"] ELSE a1
    [] a.pc = "128" ->                 \* time.sleep(connection.query_delay)
         [Sleep(a, "query_delay") EXCEPT !.pc = "97"]
    [] OTHER -> read(a)                          \* return self.read()

\* a call has come back to its caller: it returned or it raised
Ended(a) == Raised(a) \/ a.pc = "return"

\* the statement a call is at, by the method that was called
Statement(a, resp) ==
  CASE a.name = "write" -> write(a, resp)
    [] a.name = "ask" -> ask(a, resp)
    [] a.name = "read" -> read(a)
    [] OTHER -> check_acknowledgement(a, a.arg)

\* the first line of each method
FirstLine(name) ==
  CASE name \in {"write", "ask"} -> "109"
    [] name = "read" -> "97"
    [] OTHER -> "79"

\* a method is called: a new frame with its arguments
Enter(a, name, command, check_ack, r) ==
  [a EXCEPT !.name = name, !.cmd = command, !.check_ack = check_ack,
            !.pc = FirstLine(name), !.reply = EMPTY, !.arg = r]

\* a call made where no other caller has the adapter runs statement after
\* statement to its end
RECURSIVE Call(_, _)
Call(a, resp) == IF Ended(a) THEN a ELSE Call(Statement(a, resp), resp)

__init___flush_before_settle(a, r1, r2, r3) ==
  LET a0 == SuperInit(a)
      a1 == SuperWrite(a0, "echo off", r1)
      a2 == SuperWrite(a1, "prom off", r2)
      a3 == flush(a2)
      a4 == Sleep(a3, "settle")
      a5 == Call(Enter(a4, "ask", "talk usual", FALSE, EMPTY), r3)
  IN IF Raised(a0) THEN a0
     ELSE IF Raised(a1) THEN a1
     ELSE IF Raised(a2) THEN a2
     ELSE IF Raised(a3) THEN a3
     ELSE [a5 EXCEPT !.ret = <<>>]

__init___swallow(a, r1, r2, r3) ==
  LET a0 == SuperInit(a)
      a1 == SuperWrite(a0, "echo off", r1)
      a2 == SuperWrite(a1, "prom off", r2)
      a3 == Sleep(a2, "settle")
      a4 == flush(a3)
      a5 == Call(Enter(a4, "ask", "talk usual", FALSE, EMPTY), r3)
  IN IF Raised(a0) THEN a0
     ELSE IF Raised(a1) THEN a1
     ELSE IF Raised(a2) THEN a2
     ELSE IF Raised(a4) THEN a4
     ELSE [a5 EXCEPT !.exc = NoExc, !.ret = <<>>]

\* the object is handed to its user only when __init__ has returned, so no
\* other call runs between its statements
__init__(a, r1, r2, r3) ==
  LET a0 == SuperInit(a)                        \* super().__init__(port, ..)
      a1 == SuperWrite(a0, "echo off", r1)      \* super().write('echo off')
      a2 == SuperWrite(a1, "prom off", r2)      \* super().write('prom off')
      a3 == Sleep(a2, "settle")                 \* time.sleep(0.04)
      a4 == flush(a3)                           \* self.flush()
      a5 == Call(Enter(a4, "ask", "talk usual", FALSE, EMPTY), r3)
                                                \* self.ask('talk usual')
  IN IF Raised(a0) THEN a0
     ELSE IF Raised(a1) THEN a1
     ELSE IF Raised(a2) THEN a2
     ELSE IF Raised(a4) THEN a4
     ELSE [a5 EXCEPT !.ret = <<>>]              \* its result is dropped

\* ------------------------------------------------------------------ actions
RECURSIVE Flushed(_)
\* number of buffered lines the flushes of an event log discarded
Flushed(evs) ==
  IF evs = <<>> THEN 0
  ELSE (IF Head(evs).ev = "flush" THEN Head(evs).n ELSE 0) + Flushed(Tail(evs))

\* the adapter and its transport at the start of a call during which the
\* transport fails at its d-th operation (0: not at all) and ks[i] pending
\* lines have reached the input buffer when the i-th flush runs
Self(d, ks) ==
  [inbuf |-> inbuf, lastcommand |-> lastcommand, events |-> <<>>,
   exc |-> NoExc, ret |-> <<>>, dropAt |-> d, nops |-> 0, arr |-> ks,
   nfl |-> 0, adm |-> TRUE,
   name |-> "__init__", cmd |-> NoCommand, check_ack |-> FALSE, pc |-> "46",
   reply |-> EMPTY, arg |-> EMPTY]

\* the frame of the call t in progress, about to execute its next statement,
\* during which the transport fails at the d-th operation and k pending
\* lines have reached the input buffer
Frame(t, d, k) ==
  [Self(d, <<k>>) EXCEPT !.events = t.events, !.name = t.name,
                         !.cmd = t.cmd, !.check_ack = t.check_ack,
                         !.pc = t.pc, !.reply = t.reply, !.arg = t.arg]

\* what of a frame lasts from one statement of the call to the next
Thread(a, t) ==
  [name |-> a.name, cmd |-> a.cmd, check_ack |-> a.check_ack, pc |-> a.pc,
   reply |-> a.reply, arg |-> a.arg, events |-> a.events,
   afterAck |-> t.afterAck]

\* a call as its caller makes it; afterAck: it is the first call after one
\* that failed on the acknowledgement
NewCall(name, command, check_ack, r) ==
  [name |-> name, cmd |-> command, check_ack |-> check_ack,
   pc |-> FirstLine(name), reply |-> EMPTY, arg |-> r, events |-> <<>>,
   afterAck |-> /\ threads = EmptyBag
                /\ outcome.kind = "ack"
                /\ call.name \in {"write", "read", "ask"}]

\* the call t as it has come back to its caller (resp, drop and arr record
\* the inputs of a construction only)
CallOf(t) ==
  [name |-> t.name, cmd |-> t.cmd, check_ack |-> t.check_ack,
   arg |-> IF t.name = "check_acknowledgement" THEN t.arg ELSE EMPTY,
   resp |-> <<>>, drop |-> 0, arr |-> <<>>, afterAck |-> t.afterAck]

\* the call ran as its inputs say: the failing operation was reached, no
\* flush discarded more lines than were pending, and no arrival is named
\* for a flush that was not made
Admissible(a) ==
  /\ a.adm
  /\ a.dropAt <= a.nops
  /\ \A i \in (a.nfl + 1)..Len(a.arr) : a.arr[i] = 0

\* the command c went out in the call
Sent(a, c) == \E i \in 1..Len(a.events) : a.events[i] = Ev("send", c,
                                                   write_termination, "-", 0)

\* the lines pending at the last flush of a call made with no arrival
\* named for it (0 when the call made no such flush)
Room(a, i) == IF a.nfl >= i THEN Len(a.inbuf) ELSE 0

Outcome(a) ==
  IF Raised(a)
  THEN [kind |-> a.exc.kind, ret |-> <<>>, cmd |-> a.exc.cmd,
        msg |-> a.exc.msg]
  ELSE [kind |-> "ok", ret |-> a.ret, cmd |-> NoCommand, msg |-> EMPTY]

Returns(a) ==
  /\ inbuf' = a.inbuf
  /\ lastcommand' = a.lastcommand
  /\ events' = a.events
  /\ outcome' = Outcome(a)
  /\ UNCHANGED <<reply, value, applied>>

\* the call t, with the calls rest in progress beside it, executes its next
\* statement and so comes back to its caller or stays in progress
Executes(t, rest, a) ==
  /\ inbuf' = a.inbuf
  /\ lastcommand' = a.lastcommand
  /\ IF Ended(a)
     THEN /\ threads' = rest
          /\ call' = CallOf(t)
          /\ events' = a.events
          /\ outcome' = Outcome(a)
     ELSE /\ threads' = rest (+) SetToBag({Thread(a, t)})
          /\ call' = NoCall
          /\ events' = <<>>
          /\ outcome' = NoOutcome
  /\ UNCHANGED <<phase, preprocess_reply, clean, reply, value, applied>>

\* the statement of t sent its command
Sends(a, t) ==
  \E i \in (Len(t.events) + 1)..Len(a.events) : a.events[i].ev = "send"

\* the next statement of the call t: answers are the replies the instrument
\* may give to the command when the statement sends it, link tells whether
\* the link may fail, cap bounds the lines pending
Steps(t, rest, answers, link, cap) ==
  \E resp \in (IF t.pc = "110" THEN answers ELSE {<<>>}) :
     /\ Len(inbuf) + Len(resp) <= cap
     /\ \E a0 \in {Statement(Frame(t, 0, 0), resp)} :
        \E d \in 0..(IF link THEN a0.nops ELSE 0), k \in 0..Room(a0, 1) :
        \E a \in {Statement(Frame(t, d, k), resp)} :
           /\ Admissible(a)
           /\ ~Sends(a, t) => resp = <<>>
           /\ Executes(t, rest, a)

\* a caller makes the call t
Begins(t, answers, link, cap) ==
  /\ phase = "ready"
  /\ BagCardinality(threads) < MaxCallers
  /\ overlapped' = (overlapped \/ threads # EmptyBag)
  /\ ncalls < MaxCalls /\ ncalls' = ncalls + 1
  /\ Steps(t, threads, answers, link, cap)

\* a call in progress goes on
Continues(name, answers, link, cap) ==
  \E t \in BagToSet(threads) :
     /\ t.name = name
     /\ UNCHANGED <<overlapped, issued, ncalls>>
     /\ Steps(t, threads (-) SetToBag({t}), answers, link, cap)

Init ==
  /\ phase = "new"
  /\ inbuf \in {Tag(b, "banner") : b \in Responses(MaxBanner)}
  /\ lastcommand = NoCommand
  /\ call = NoCall /\ outcome = NoOutcome /\ events = <<>>
  /\ preprocess_reply = "none"
  /\ issued = NoCommand /\ threads = EmptyBag /\ ncalls = 0
  /\ overlapped = FALSE /\ clean = FALSE
  /\ reply = <<>> /\ value = <<>> /\ applied = FALSE

\* what construction leaves: the hook of line 43 is installed in the
\* adapter when __init__ returns
Constructed(a) ==
  /\ phase' = IF Raised(a) THEN "failed" ELSE "ready"
  /\ preprocess_reply' = IF Raised(a) THEN "none" ELSE "extract_value"
  /\ clean' = (~Raised(a) /\ a.inbuf = <<>>)

\* TopticaAdapter(port, baud_rate)
Construct ==
  /\ phase = "new"
  /\ \E r1 \in Responses(MaxInitResp) :
     \E r2 \in Responses(MaxInitResp - Len(r1)) :
     \E k1 \in 0..(Len(inbuf) + Len(r1) + Len(r2)) :
     \E r3 \in Responses(MaxResp) :
       /\ Len(inbuf) + Len(r1) + Len(r2) - k1 + Len(r3) <= MaxBuf
       /\ \E a0 \in {__init__(Self(0, <<k1, 0>>), r1, r2, r3)} :
            \E d \in 0..a0.nops, k2 \in 0..Room(a0, 2) :
               \E a \in {__init__(Self(d, <<k1, k2>>), r1, r2, r3)} :
                  /\ Admissible(a)
                  /\ ~Sent(a, "echo off") => r1 = <<>>
                  /\ ~Sent(a, "prom off") => r2 = <<>>
                  /\ ~Sent(a, "talk usual") => r3 = <<>>
                  /\ Returns(a)
                  /\ call' = [name |-> "__init__", cmd |-> "talk usual",
                              check_ack |-> FALSE, arg |-> EMPTY,
                              resp |-> r3, drop |-> d, arr |-> <<k1, k2>>,
                              afterAck |-> FALSE]
                  /\ issued' = IF \E i \in 1..Len(a.events) :
                                    /\ a.events[i].cmd = "talk usual"
                                    /\ a.events[i].ev \in {"send",
                                                           "send_failed"}
                               THEN "talk usual" ELSE NoCommand
                  /\ Constructed(a)
                  /\ UNCHANGED <<threads, overlapped, ncalls>>

\* adapter.write(c, check_ack): the call is made and line 109 runs, or a
\* write in progress executes its next statement
Write ==
  \/ \E c \in Commands, ck \in BOOLEAN :
       /\ Begins(NewCall("write", c, ck, EMPTY), Responses(MaxResp), TRUE, MaxBuf)
       /\ issued' = c
  \/ Continues("write", Responses(MaxResp), TRUE, MaxBuf)

\* adapter.ask(c): the call is made and line 109 runs, or an ask in
\* progress executes its next statement
Ask ==
  \/ \E c \in Commands :
       /\ Begins(NewCall("ask", c, FALSE, EMPTY), Responses(MaxResp), TRUE, MaxBuf)
       /\ issued' = c
  \/ Continues("ask", Responses(MaxResp), TRUE, MaxBuf)

\* adapter.read(): the call is made and line 97 runs, or a read in progress
\* executes its next statement
Read ==
  \/ /\ Begins(NewCall("read", NoCommand, FALSE, EMPTY), {<<>>}, TRUE, MaxBuf)
     /\ UNCHANGED issued
  \/ Continues("read", {<<>>}, TRUE, MaxBuf)

\* adapter.check_acknowledgement(r), called on its own: the call is made and
\* line 79 runs, or such a call in progress executes its next statement
CheckAcknowledgement ==
  \/ \E r \in Lines :
       /\ Begins(NewCall("check_acknowledgement", NoCommand, FALSE, r),
                 {<<>>}, TRUE, MaxBuf)
       /\ UNCHANGED issued
  \/ Continues("check_acknowledgement", {<<>>}, TRUE, MaxBuf)

Next ==
  \/ Construct \/ Write \/ Ask \/ Read \/ CheckAcknowledgement

Spec == Init /\ [][Next]_vars


\* ------------------------------------ an instrument that keeps the format
\* the data lines of a conforming instrument: 'x = 1.5' or short free text
DataLines == {DATA} \cup UNION {[1..n -> Alphabet] : n \in 0..MaxData}

\* a set-style command is answered by the empty echo line and '[OK]'
SetReply == <<EMPTY, OK>>

\* a query-style command by the echo line, one data line and '[OK]'
QueryReply(d) == <<EMPTY, d, OK>>

\* TopticaAdapter(port, baud_rate) with an instrument that answers 'echo
\* off' and 'prom off' as set-style and 'talk usual' as query-style
\* commands, on a link that holds
ConformingConstruct ==
  /\ phase = "new"
  /\ \E dl \in DataLines, k1 \in 0..(Len(inbuf) + 4) :
       \E a0 \in {__init__(Self(0, <<k1, 0>>), SetReply, SetReply,
                          QueryReply(dl))} :
         \E k2 \in 0..Room(a0, 2) :
            \E a \in {__init__(Self(0, <<k1, k2>>), SetReply, SetReply,
                              QueryReply(dl))} :
               /\ Admissible(a)
               /\ Returns(a)
               /\ Constructed(a)
               /\ call' = [name |-> "__init__", cmd |-> "talk usual",
                           check_ack |-> FALSE, arg |-> EMPTY,
                           resp |-> QueryReply(dl), drop |-> 0,
                           arr |-> <<k1, k2>>, afterAck |-> FALSE]
               /\ issued' = "talk usual"
               /\ UNCHANGED <<threads, overlapped, ncalls>>

\* adapter.write('set power 5'): the call is made and line 109 runs, or a
\* write in progress executes its next statement
ConformingWrite ==
  \/ /\ Begins(NewCall("write", "set power 5", TRUE, EMPTY), {SetReply},
               FALSE, MaxPending)
     /\ issued' = "set power 5"
  \/ Continues("write", {SetReply}, FALSE, MaxPending)

\* adapter.ask('power?'): the call is made and line 109 runs, or an ask in
\* progress executes its next statement
ConformingAsk ==
  \/ /\ Begins(NewCall("ask", "power?", FALSE, EMPTY),
               {QueryReply(dl) : dl \in DataLines}, FALSE, MaxPending)
     /\ issued' = "power?"
  \/ Continues("ask", {QueryReply(dl) : dl \in DataLines}, FALSE, MaxPending)

NextConforming ==
  ConformingConstruct \/ ConformingWrite \/ ConformingAsk

SpecConforming == Init /\ [][NextConforming]_vars

\* =================================================================== claims
IsRead(e) == e.ev = "read"
IsSend(e) == e.ev = "send"
IsFlush(e) == e.ev = "flush"

Reads(evs) == SelectSeq(evs, IsRead)       \* the lines a call consumed
NReads == Len(Reads(events))
NSends == Len(SelectSeq(events, IsSend))
NFlush == Len(SelectSeq(events, IsFlush))
Txt(evs) == [i \in 1..Len(evs) |-> evs[i].txt]
Kinds(evs) == [i \in 1..Len(evs) |-> evs[i].ev]

\* ----------------------------------------------------------------------- C1
\* C1 as stated: whenever a call to write(command, check_ack) has returned
\* to its caller, by return or by an error raised on a line it read, exactly
\* one echo line and, when check_ack is true, one acknowledgement line have
\* been consumed from the transport.
C1_Original ==
  (call.name = "write" /\ outcome.kind # "transport")
    => NReads = (IF call.check_ack THEN 2 ELSE 1)

\* C1 amended: a write that returns normally has consumed exactly the echo
\* line and, when check_ack is true, the acknowledgement line, without any
\* flush; a write that fails on the acknowledgement has consumed both lines
\* and flushed once, last of all; a write that fails on a non-empty echo has
\* consumed that one line only, also when check_ack is true, without flush.
C1_WriteConsumes ==
  call.name = "write" =>
    /\ outcome.kind = "ok" =>
         NReads = (IF call.check_ack THEN 2 ELSE 1) /\ NFlush = 0
    /\ outcome.kind = "ack" =>
         /\ NReads = 2 /\ NFlush = 1 /\ call.check_ack
         /\ events[Len(events)].ev = "flush"
    /\ outcome.kind = "echo" => NReads = 1 /\ NFlush = 0

\* a write with check_ack that failed on the echo and left the '[OK]' the
\* instrument sent for this very command in the buffer
C1_Witness ==
  /\ call.name = "write" /\ call.check_ack /\ outcome.kind = "echo"
  /\ \E i \in 1..Len(inbuf) : inbuf[i] = [txt |-> OK, tag |-> "cur"]

\* ----------------------------------------------------------------------- C2
AskDelivered ==   \* an ask whose three reads delivered '', d, '[OK]'
  /\ call.name = "ask" /\ NReads = 3
  /\ Reads(events)[1].txt = EMPTY /\ Reads(events)[3].txt = OK

\* the reply hook the adapter holds, applied to a line
Preprocessed(r) ==
  IF preprocess_reply = "extract_value" THEN extract_value(r) ELSE r

\* C2: ask(c) against a transport delivering '', d, '[OK]' returns the data
\* line after the installed reply hook has been applied to it, with the
\* default hook extract_value(d), and not the raw line d.
C2_AskReturnsValue ==
  AskDelivered =>
    /\ outcome.kind = "ok"
    /\ outcome.ret = <<Preprocessed(Reads(events)[2].txt)>>

\* ----------------------------------------------------------------------- C3
RECURSIVE ValueEnd(_, _)
\* index of the last character of the value token starting at j: word
\* characters, continued over every decimal point that a word character
\* follows (j-1 when no word character stands at j)
ValueEnd(r, j) ==
  LET e == RunEnd(r, j, WordChars)
  IN IF e >= j /\ e + 2 <= Len(r) /\ r[e + 1] = "." /\ r[e + 2] \in WordChars
     THEN ValueEnd(r, e + 2)
     ELSE e

\* reply[i..] begins '<name> = <value>': a word, whitespace, '=', whitespace
\* and a value token
NameValueAt(r, i) ==
  LET e1 == RunEnd(r, i, WordChars)
      e2 == RunEnd(r, e1 + 1, SpaceChars)
      e3 == RunEnd(r, e2 + 2, SpaceChars)
      e4 == ValueEnd(r, e3 + 1)
      ok == /\ e1 >= i /\ e2 > e1
            /\ e2 + 1 <= Len(r) /\ r[e2 + 1] = "="
            /\ e3 >= e2 + 2 /\ e4 > e3
  IN [ok |-> ok, token |-> IF ok THEN SubSeq(r, e3 + 1, e4) ELSE <<>>]

NameValueStarts(r) == {i \in 1..Len(r) : NameValueAt(r, i).ok}

\* C3: for a reply containing '<name> = <value> [unit]' extract_value
\* returns the whole value token, decimal point included; any other reply is
\* returned unchanged.
C3_WholeValueToken ==
  applied =>
    IF NameValueStarts(reply) = {} THEN value = reply
    ELSE value = NameValueAt(reply,
                   CHOOSE i \in NameValueStarts(reply) :
                     \A j \in NameValueStarts(reply) : i <= j).token

\* ----------------------------------------------------------------------- C4
AllIn(r, i, j, S) == \A k \in i..j : r[k] \in S

\* r is n, whitespace w1, '=', whitespace w2, v with word tokens n and v;
\* i is the position of '=' and k the position where v starts
Shape(r, i, k) ==
  /\ i \in 2..Len(r) /\ k \in (i + 1)..Len(r)
  /\ r[i] = "="
  /\ \E j \in 1..(i - 1) :
       AllIn(r, 1, j, WordChars) /\ AllIn(r, j + 1, i - 1, SpaceChars)
  /\ AllIn(r, i + 1, k - 1, SpaceChars)
  /\ AllIn(r, k, Len(r), WordChars)

SpaceBefore(r, i) == r[i - 1] \in SpaceChars
SpaceAfter(r, i, k) == k > i + 1

\* C4 as stated: for word tokens n and v, extract_value returns v for each
\* of 'n=v', 'n =v', 'n= v' and 'n = v'.
C4_Original ==
  applied =>
    \A i, k \in 1..Len(reply) :
      Shape(reply, i, k) => value = SubSeq(reply, k, Len(reply))

\* C4 amended: whitespace is required on both sides of the equals sign:
\* extract_value returns v for 'n = v' and returns the reply unchanged for
\* 'n=v', 'n =v' and 'n= v'.
C4_WhitespaceRequired ==
  applied =>
    \A i, k \in 1..Len(reply) :
      Shape(reply, i, k) =>
        IF SpaceBefore(reply, i) /\ SpaceAfter(reply, i, k)
        THEN value = SubSeq(reply, k, Len(reply))
        ELSE value = reply

C4_Witness ==
  applied /\ reply = <<"p", "2", "=", "2", "p">> /\ value = reply

\* ----------------------------------------------------------------------- C5
\* the call u is in progress after a step that it has just taken
Stepped(u) == CopiesIn(u, threads') > CopiesIn(u, threads)

\* C5: check_acknowledgement(reply) returns normally exactly when reply is
\* '[OK]', and then touches nothing (no transport event, pending lines and
\* lastcommand as before); for any other reply its only transport event is
\* one input flush, which discards the lines that have reached the buffer
\* and no other, and after the flush it ends with the acknowledgement error
\* carrying the reply (with the transport's error when the flush itself
\* fails); none of its statements changes lastcommand.
C5_CheckAcknowledgement ==
  [][/\ call'.name = "check_acknowledgement" =>
          /\ inbuf' = inbuf
          /\ lastcommand' = lastcommand
          /\ IF call'.arg = OK
             THEN outcome'.kind = "ok" /\ events' = <<>>
             ELSE /\ Len(events') = 1
                  /\ IF events'[1].ev = "flush"
                     THEN /\ outcome'.kind = "ack"
                          /\ outcome'.msg = call'.arg
                          /\ outcome'.cmd = lastcommand
                     ELSE /\ outcome'.kind = "transport"
                          /\ events'[1].ev = "flush_failed"
     /\ \A u \in BagToSet(threads') :
          (u.name = "check_acknowledgement" /\ Stepped(u)) =>
            /\ u.arg # OK
            /\ lastcommand' = lastcommand
            /\ IF u.pc = "80"
               THEN u.events = <<>> /\ inbuf' = inbuf
               ELSE /\ u.pc = "81"
                    /\ Len(u.events) = 1 /\ u.events[1].ev = "flush"
                    /\ u.events[1].n <= Len(inbuf)
                    /\ inbuf' = SubSeq(inbuf, u.events[1].n + 1,
                                       Len(inbuf))]_vars

\* check_acknowledgement('x = 1.5') failed and its flush discarded a line
C5_Witness ==
  /\ call.name = "check_acknowledgement" /\ call.arg = DATA
  /\ outcome.kind = "ack" /\ NFlush = 1 /\ Flushed(events) > 0

\* ----------------------------------------------------------------------- C6
\* C6: a read() that the transport serves consumes exactly two lines, each
\* the first pending line when it is read, the data line and then the
\* acknowledgement line; when the second is '[OK]' it returns the data line
\* and flushes nothing, otherwise it raises the acknowledgement error with
\* that second line, returns nothing and has flushed exactly once, after
\* both reads.
C6_Read ==
  [][/\ (call'.name = "read" /\ outcome'.kind # "transport") =>
          /\ Len(Reads(events')) = 2
          /\ events'[1].ev = "read" /\ events'[2].ev = "read"
          /\ IF events'[2].txt = OK
             THEN /\ outcome'.kind = "ok"
                  /\ outcome'.ret = <<events'[1].txt>>
                  /\ Len(events') = 2
                  /\ Len(inbuf) >= 1
                  /\ events'[2].txt = inbuf[1].txt
                  /\ inbuf' = Tail(inbuf)
             ELSE /\ outcome'.kind = "ack"
                  /\ outcome'.ret = <<>>
                  /\ outcome'.msg = events'[2].txt
                  /\ Len(events') = 3 /\ events'[3].ev = "flush"
                  /\ inbuf' = inbuf
     /\ \A u \in BagToSet(threads') :
          (u.name = "read" /\ Stepped(u)) =>
            CASE u.pc = "98" ->
                      /\ Len(inbuf) >= 1
                      /\ u.events = <<Ev("read", NoCommand, inbuf[1].txt,
                                         inbuf[1].tag, 0)>>
                      /\ u.reply = inbuf[1].txt
                      /\ inbuf' = Tail(inbuf)
              [] u.pc = "80" ->
                      /\ Len(inbuf) >= 1
                      /\ Len(u.events) = 2
                      /\ u.events[2] = Ev("read", NoCommand, inbuf[1].txt,
                                          inbuf[1].tag, 0)
                      /\ u.arg = inbuf[1].txt /\ u.arg # OK
                      /\ inbuf' = Tail(inbuf)
              [] OTHER ->
                      /\ u.pc = "81" /\ Len(u.events) = 3
                      /\ u.events[3].ev = "flush"
                      /\ u.events[3].n <= Len(inbuf)
                      /\ inbuf' = SubSeq(inbuf, u.events[3].n + 1,
                                         Len(inbuf))]_vars

\* read() with data 'x = 1.5' and an empty line in place of '[OK]'
C6_Witness ==
  /\ call.name = "read" /\ outcome.kind = "ack"
  /\ Txt(Reads(events)) = <<DATA, EMPTY>> /\ NFlush = 1

\* ----------------------------------------------------------------------- C7
\* C7: a write(command, check_ack) whose send the link carries sends
\* exactly one line, the command with the write termination, before it
\* reads; with check_ack false it consumes exactly one line whether the
\* echo check passes or fails; with check_ack true, an empty echo and a
\* second line delivered it consumes exactly two lines, and returns
\* normally when the second is '[OK]'.
C7_Write ==
  (call.name = "write" /\ events[1].ev # "send_failed") =>
    /\ NSends = 1
    /\ events[1] = Ev("send", call.cmd, <<"\r", "\n">>, "-", 0)
    /\ (~call.check_ack /\ outcome.kind \in {"ok", "echo"}) => NReads = 1
    /\ (call.check_ack /\ outcome.kind # "transport" /\ NReads >= 1
          /\ Reads(events)[1].txt = EMPTY) =>
         /\ NReads = 2
         /\ Reads(events)[2].txt = OK => outcome.kind = "ok"

\* write('set power 5') with echo '' and acknowledgement '[OK]'
C7_Witness ==
  /\ call.name = "write" /\ call.check_ack /\ call.cmd = "set power 5"
  /\ Txt(Reads(events)) = <<EMPTY, OK>> /\ outcome.kind = "ok"

\* ----------------------------------------------------------------------- C8
\* C8: when the line read after sending the command in write, or in the
\* write step of ask, is non-empty, the call ends with the echo error in
\* that very statement, for either value of check_ack: that line is the
\* only one it has read, it has made no flush, and every line that was
\* pending behind the echo line is still pending.
C8_EchoError ==
  [][(/\ call'.name \in {"write", "ask"}
      /\ Len(Reads(events')) >= 1
      /\ Reads(events')[1].txt # EMPTY) =>
       /\ outcome'.kind = "echo"
       /\ Len(Reads(events')) = 1
       /\ Len(SelectSeq(events', IsFlush)) = 0
       /\ Kinds(events') = <<"send", "read">>
       /\ Len(inbuf) >= 1
       /\ events'[2].txt = inbuf[1].txt
       /\ inbuf' = Tail(inbuf)]_vars

\* an ask that failed on the echo with two lines left behind it
C8_Witness ==
  /\ call.name = "ask" /\ outcome.kind = "echo" /\ Len(inbuf) = 2

\* a write with check_ack that failed on the echo in the same way
C8_WitnessCheckAck ==
  /\ call.name = "write" /\ call.check_ack /\ outcome.kind = "echo"
  /\ Len(inbuf) = 2

\* ----------------------------------------------------------------------- C9
\* C9: a write, read or ask that fails on the acknowledgement has flushed
\* the input before raising, and the first line the next write or ask reads
\* is one the instrument sent in answer to the command of that next call,
\* not a leftover of the failed exchange.
C9_FlushedBeforeError ==
  /\ (call.name \in {"write", "read", "ask"} /\ outcome.kind = "ack")
       => events[Len(events)].ev = "flush"
  /\ (/\ call.name \in {"write", "ask"} /\ call.afterAck /\ ~overlapped
      /\ NReads >= 1)
       => Reads(events)[1].tag = "cur"

\* ---------------------------------------------------------------------- C10
\* C10: an acknowledgement error carries the command of the most recent
\* write/ask call made on the adapter, whichever caller made it, and the
\* rejected line as received; an echo error carries the command of the
\* write that read the echo and the non-empty echo text.
C10_ErrorCarries ==
  /\ outcome.kind = "ack" =>
       /\ outcome.cmd = issued
       /\ outcome.msg = (IF call.name = "check_acknowledgement" THEN call.arg
                         ELSE Reads(events)[NReads].txt)
       /\ outcome.msg # OK
  /\ outcome.kind = "echo" =>
       /\ outcome.cmd = call.cmd
       /\ outcome.msg = Reads(events)[1].txt
       /\ outcome.msg # EMPTY

\* a read() whose acknowledgement failed after an earlier ask('power?')
C10_Witness ==
  /\ call.name = "read" /\ outcome.kind = "ack"
  /\ outcome.cmd = "power?" /\ outcome.msg = DATA

\* a write whose acknowledgement error names the command of a call that
\* another caller made while the write was in progress
C10_WitnessOtherCaller ==
  /\ call.name = "write" /\ outcome.kind = "ack"
  /\ outcome.cmd # call.cmd /\ outcome.cmd = issued

\* ---------------------------------------------------------------------- C11
Failures == {"send_failed", "flush_failed", "timeout"}

\* the transport events of a complete construction, in order
ConstructionOrder ==
  <<"send", "send", "sleep", "flush", "send", "read", "sleep", "read",
    "read">>

\* C11: construction sends 'echo off' and 'prom off' without reading, waits
\* the settle delay, flushes the input, and then runs the ask cycle of
\* 'talk usual' (send, read echo, query delay, read data, read
\* acknowledgement), in this order; a construction that fails stops inside
\* this order; no line is read before the flush.
C11_ConstructionOrder ==
  call.name = "__init__" =>
    /\ \A i \in 1..Len(events) :
         \/ i <= 9 /\ events[i].ev = ConstructionOrder[i]
         \/ i = Len(events) /\ events[i].ev \in Failures
         \/ i = 10 /\ i = Len(events) /\ events[i].ev = "flush"
                   /\ outcome.kind = "ack"
    /\ Len(events) >= 1 => events[1].cmd = "echo off"
    /\ Len(events) >= 2 => events[2].cmd = "prom off"
    /\ Len(events) >= 3 => events[3].cmd = "settle"
    /\ Len(events) >= 5 => events[5].cmd = "talk usual"
    /\ Len(events) >= 7 => events[7].cmd = "query_delay"
    /\ outcome.kind = "ok" => Kinds(events) = ConstructionOrder
    /\ \A i \in 1..Len(events) :
         events[i].ev \in {"read", "timeout"} =>
           \E j \in 1..(i - 1) : events[j].ev = "flush"

\* a construction that succeeded and whose flush had lines to discard
C11_Witness ==
  /\ call.name = "__init__" /\ outcome.kind = "ok" /\ phase = "ready"
  /\ Kinds(events) = ConstructionOrder /\ events[4].n >= 2

\* ---------------------------------------------------------------------- C12
\* C12: the flush of construction discards the boot banner and whatever the
\* instrument sent for 'echo off' and 'prom off': once 'talk usual' is sent
\* no line of the banner or of the two mode commands is pending, and the
\* first line the 'talk usual' exchange reads is the echo of 'talk usual'.
C12_FlushDiscardsBanner ==
  (call.name = "__init__" /\ \E i \in 1..Len(events) :
                               events[i] = Ev("send", "talk usual",
                                              write_termination, "-", 0)) =>
    /\ \A i \in 1..Len(events) :
         events[i].ev = "read" => events[i].tag = "cur"
    /\ \A i \in 1..Len(inbuf) : inbuf[i].tag = "cur"
    /\ NReads >= 1 => Reads(events)[1].txt = call.resp[1]

\* ---------------------------------------------------------------------- C13
\* a step of the construction failed: the transport did not open, a send
\* or the flush failed on the link, a read timed out, the echo of
\* 'talk usual' was not empty, or its acknowledgement was not '[OK]'
ConstructionStepFailed ==
  \/ call.drop = 1
  \/ \E i \in 1..Len(events) : events[i].ev \in Failures
  \/ NReads >= 1 /\ Reads(events)[1].txt # EMPTY
  \/ NReads >= 3 /\ Reads(events)[3].txt # OK

\* C13: when a step of the construction fails, the construction ends with
\* an error and the adapter is not ready; an adapter whose construction
\* failed is never used for a write, read or ask; the adapter is ready only
\* after a construction without error.
C13_FailedConstruction ==
  /\ (call.name = "__init__" /\ ConstructionStepFailed) =>
       phase = "failed" /\ outcome.kind \in {"transport", "echo", "ack"}
  /\ phase = "failed" => call.name = "__init__" /\ outcome.kind # "ok"
  /\ (call.name = "__init__" /\ phase = "ready") =>
       outcome.kind = "ok" /\ ~ConstructionStepFailed

\* a construction that failed because the flush failed on the link
C13_Witness ==
  /\ call.name = "__init__" /\ phase = "failed" /\ Len(events) = 4
  /\ events[4].ev = "flush_failed" /\ outcome.kind = "transport"

\* ---------------------------------------------------------------------- C14
\* the transport events of a complete ask, in order
AskOrder == <<"send", "read", "sleep", "read", "read">>

\* C14: ask(command) is write(command, check_ack=False), the query delay,
\* then read(): its events are send command, read echo, wait query_delay,
\* read data, read acknowledgement, in this order, a failing ask stopping
\* inside it (after the flush when the acknowledgement fails), and an ask
\* in progress being inside it; the wait comes after the send and the echo
\* read and before the data read; a successful ask consumes exactly three
\* lines, flushes nothing and returns the second of them; when no other
\* call ran meanwhile the adapter has recorded its command.
C14_AskOrder ==
  /\ call.name = "ask" =>
       /\ ~overlapped => lastcommand = call.cmd
       /\ \A i \in 1..Len(events) :
            \/ i <= 5 /\ events[i].ev = AskOrder[i]
            \/ i = Len(events) /\ events[i].ev \in Failures
            \/ i = 6 /\ i = Len(events) /\ events[i].ev = "flush"
                     /\ outcome.kind = "ack"
       /\ Len(events) >= 1 /\ events[1].cmd = call.cmd
       /\ Len(events) >= 3 => events[3].cmd = "query_delay"
       /\ NReads >= 2 => events[3].ev = "sleep"
       /\ (NReads >= 1 /\ Reads(events)[1].txt # EMPTY) => Len(events) = 2
       /\ outcome.kind = "ok" =>
            /\ Kinds(events) = AskOrder /\ NReads = 3 /\ NFlush = 0
            /\ outcome.ret = <<events[4].txt>>
  /\ \A t \in BagToSet(threads) :
       t.name = "ask" =>
         /\ Len(t.events) <= 6
         /\ \A i \in 1..Len(t.events) :
              \/ i <= 5 /\ t.events[i].ev = AskOrder[i]
              \/ i = 6 /\ t.events[i].ev = "flush" /\ t.pc = "81"
         /\ Len(t.events) >= 1 => t.events[1].cmd = t.cmd
         /\ Len(t.events) >= 3 => t.events[3].cmd = "query_delay"
         /\ t.pc \in {"97", "98"} <=> Len(t.events) \in {3, 4}

\* ask('power?') with echo '', data 'x = 1.5' and acknowledgement '[OK]'
C14_Witness ==
  /\ call.name = "ask" /\ call.cmd = "power?" /\ outcome.kind = "ok"
  /\ Kinds(events) = AskOrder /\ Txt(Reads(events)) = <<EMPTY, DATA, OK>>

\* ---------------------------------------------------------------------- C15
IsSendAttempt(e) == e.ev \in {"send", "send_failed"}
IsFailure(e) == e.ev \in Failures

\* C15: no call is retried.  A write or ask hands its command to the
\* transport exactly once, first of all, whatever the outcome, and a read
\* or check_acknowledgement sends nothing; after a transport failure, an
\* echo failure or an acknowledgement failure (with its flush) nothing more
\* is sent or read in the call; a transport failure reaches the caller as
\* the transport raised it and no flush is made.
C15_NoRetry ==
  call.name \in {"write", "ask", "read", "check_acknowledgement"} =>
    /\ Len(SelectSeq(events, IsSendAttempt)) =
         (IF call.name \in {"write", "ask"} THEN 1 ELSE 0)
    /\ call.name \in {"write", "ask"} =>
         IsSendAttempt(events[1]) /\ events[1].cmd = call.cmd
    /\ outcome.kind = "transport" =>
         /\ IsFailure(events[Len(events)])
         /\ Len(SelectSeq(events, IsFailure)) = 1
         /\ NFlush = 0
         /\ outcome = [kind |-> "transport", ret |-> <<>>,
                       cmd |-> NoCommand, msg |-> EMPTY]
    /\ outcome.kind # "transport" => Len(SelectSeq(events, IsFailure)) = 0
    /\ outcome.kind = "echo" =>
         events[Len(events)].ev = "read" /\ NReads = 1
    /\ outcome.kind = "ack" =>
         /\ events[Len(events)].ev = "flush" /\ NFlush = 1
         /\ call.name # "check_acknowledgement" =>
              /\ events[Len(events) - 1].ev = "read"
              /\ events[Len(events) - 1].txt = outcome.msg
    /\ outcome.kind = "ok" =>
         NReads = (CASE call.name = "write" ->
                          (IF call.check_ack THEN 2 ELSE 1)
                     [] call.name = "ask" -> 3
                     [] call.name = "read" -> 2
                     [] OTHER -> 0)

\* a write whose echo read timed out after the command went out once
C15_Witness ==
  /\ call.name = "write" /\ outcome.kind = "transport"
  /\ Kinds(events) = <<"send", "timeout">>

\* ---------------------------------------------------------------------- C16
\* C16: extract_value applied to its own result returns that result: a
\* captured value holds no further '=' pattern and an unmatched reply is
\* returned as it is.
C16_Idempotent ==
  applied => extract_value(value) = value

\* a reply from which a value was extracted
C16_Witness ==
  /\ applied /\ reply = <<"p", " ", "=", " ", "2", "p", ".">>
  /\ value = <<"2", "p">> /\ extract_value(value) = value

\* ---------------------------------------------------------------------- C17
\* the conversation state after event e in state st of a call of the given
\* kind, as the listed transitions allow; "Invalid" when they do not
ConvStep(st, e, isAsk, check_ack) ==
  CASE st = "Idle" ->
         IF e.ev = "send" THEN "AwaitingEcho"
         ELSE IF e.ev = "send_failed" THEN "Done"
         ELSE "Invalid"
    [] st = "AwaitingEcho" ->
         IF e.ev = "timeout" THEN "Done"
         ELSE IF e.ev # "read" THEN "Invalid"
         ELSE IF e.txt # EMPTY THEN "Done"
         ELSE IF isAsk THEN "AwaitingData"
         ELSE IF check_ack THEN "AwaitingAck"
         ELSE "Done"
    [] st = "AwaitingData" ->
         IF e.ev = "sleep" THEN "AwaitingData"
         ELSE IF e.ev = "read" THEN "AwaitingAck"
         ELSE IF e.ev = "timeout" THEN "Done"
         ELSE "Invalid"
    [] st = "AwaitingAck" ->
         IF e.ev = "timeout" THEN "Done"
         ELSE IF e.ev # "read" THEN "Invalid"
         ELSE IF e.txt = OK THEN "Done"
         ELSE "Resync"
    [] st = "Resync" ->
         IF e.ev \in {"flush", "flush_failed"} THEN "Done" ELSE "Invalid"
    [] OTHER -> "Invalid"        \* nothing happens once back in Idle

RECURSIVE ConvRun(_, _, _, _)
\* the state the events evs lead to from st ("Done": back in Idle)
ConvRun(st, evs, isAsk, check_ack) ==
  IF evs = <<>> THEN st
  ELSE ConvRun(ConvStep(st, Head(evs), isAsk, check_ack), Tail(evs),
               isAsk, check_ack)

\* the events of the last call that belong to its conversation, and the
\* state the conversation starts in
ConvEvents ==
  IF call.name = "__init__" THEN SubSeq(events, 5, Len(events)) ELSE events

ConvStart == IF call.name = "read" THEN "AwaitingData" ELSE "Idle"

\* the conversation state of the call t in progress
ConvOf(t) ==
  ConvRun(IF t.name = "read" THEN "AwaitingData" ELSE "Idle", t.events,
          t.name = "ask", t.check_ack)

\* the line of the code at which a call is in each conversation state
LinesOf(st) ==
  CASE st = "Idle" -> {"110"}                    \* about to send
    [] st = "AwaitingEcho" -> {"112"}
    [] st = "AwaitingData" -> {"128", "97"}
    [] st = "AwaitingAck" -> {"118", "98"}
    [] st = "Resync" -> {"80"}
    [] st = "Done" -> {"81"}                     \* flushed, about to raise
    [] OTHER -> {}

\* C17: the events of every write, ask and read follow the listed
\* transitions (write: Idle, AwaitingEcho, AwaitingAck only with check_ack,
\* Idle; ask: Idle, AwaitingEcho, AwaitingData, AwaitingAck, Idle; read
\* enters at AwaitingData), while the call is in progress and when it has
\* come back: every call that has come back, whatever its outcome, has its
\* conversation back in Idle, with nothing happening after the return to
\* Idle, so that with no call in progress every conversation is in Idle; a
\* flush is made exactly on the acknowledgement error path and none on the
\* echo error path; the line a call reads while it awaits the echo is only
\* compared with '', and the line an ask returns is the one it read in
\* AwaitingData.
C17_Conversation ==
  /\ (call.name \in {"write", "ask", "read"}
        \/ (call.name = "__init__" /\ Len(events) >= 5)) =>
       /\ ConvRun(ConvStart, ConvEvents, call.name \in {"ask", "__init__"},
                  call.check_ack) = "Done"
       /\ outcome.kind = "ack" <=>
            Len(SelectSeq(ConvEvents, IsFlush)) = 1
       /\ outcome.kind # "ack" => Len(SelectSeq(ConvEvents, IsFlush)) = 0
       /\ (call.name = "ask" /\ outcome.kind = "ok") =>
            /\ ConvRun("Idle", SubSeq(events, 1, 3), TRUE, FALSE)
                 = "AwaitingData"
            /\ outcome.ret = <<events[4].txt>>
  /\ \A t \in BagToSet(threads) :
       t.name \in {"write", "ask", "read"} =>
         /\ t.pc \in LinesOf(ConvOf(t))
         /\ Len(SelectSeq(t.events, IsFlush)) =
              (IF t.pc = "81" THEN 1 ELSE 0)

\* a write with check_ack that went through AwaitingEcho and AwaitingAck and
\* came back to Idle over the flush of a failed acknowledgement
C17_Witness ==
  /\ call.name = "write" /\ call.check_ack /\ outcome.kind = "ack"
  /\ Kinds(events) = <<"send", "read", "read", "flush">>

\* ---------------------------------------------------------------------- C18
\* C18: lastcommand is at every moment the command of the most recent write
\* or ask call made on the adapter: write records it in its first
\* statement, before it sends, so that it stands also when that write fails
\* on the echo, the acknowledgement or the transport; no statement of read
\* or check_acknowledgement and no later statement of write or ask changes
\* it; after a write or ask during which no other call was made it is the
\* command of that call, however the call ended; before the construction it
\* is unset; the raw sends of 'echo off' and 'prom off' do not record it (a
\* construction that fails on them leaves it unset), and once 'talk usual'
\* is issued it is 'talk usual'.
C18_LastCommand ==
  [][/\ lastcommand' = issued'
     /\ \A u \in BagToSet(threads') :
          (Stepped(u) /\ u.pc = "110") =>
            u.events = <<>> /\ lastcommand' = u.cmd
     /\ lastcommand' # lastcommand =>
          \/ call'.name = "__init__"
          \/ \E u \in BagToSet(threads') :
               Stepped(u) /\ u.pc = "110" /\ u.name \in {"write", "ask"}
     /\ (call'.name \in {"write", "ask"} /\ ~overlapped') =>
          lastcommand' = call'.cmd
     /\ call'.name = "__init__" =>
          /\ lastcommand = NoCommand
          /\ lastcommand' =
               (IF \E i \in 1..Len(events') :
                     IsSendAttempt(events'[i]) /\ events'[i].cmd = "talk usual"
                THEN "talk usual" ELSE NoCommand)
          /\ phase' = "ready" => lastcommand' = "talk usual"]_vars

\* a write that failed on the link and still recorded its command
C18_Witness ==
  /\ call.name = "write" /\ call.cmd = "power?"
  /\ outcome.kind = "transport" /\ lastcommand = "power?"
  /\ Kinds(events) = <<"send_failed">>

\* ---------------------------------------------------------------------- C19
\* C19: against an instrument that keeps the wire format, when no line was
\* pending after the construction and the calls are made one after the
\* other, every write(set command, check_ack=True) and ask(query command)
\* returns without error, flushes nothing and leaves no line pending, so
\* that the next call starts clean again; write reads its two lines, ask
\* its three, and ask returns the data line of its own reply.
C19_ConformingInstrument ==
  (clean /\ ~overlapped) =>
    /\ call.name \in {"write", "ask"} =>
         /\ outcome.kind = "ok"
         /\ inbuf = <<>>
         /\ NFlush = 0
         /\ \A i \in 1..Len(events) : ~IsFailure(events[i])
         /\ call.name = "write" => Txt(Reads(events)) = SetReply
         /\ call.name = "ask" =>
              /\ NReads = 3
              /\ Txt(Reads(events)) = QueryReply(Reads(events)[2].txt)
              /\ Reads(events)[2].tag = "cur"
              /\ outcome.ret = <<Reads(events)[2].txt>>
    /\ (phase = "ready" /\ threads = EmptyBag) => inbuf = <<>>

\* the second of two calls: an ask that returned 'x = 1.5' and left nothing
\* pending
C19_Witness ==
  /\ call.name = "ask" /\ outcome.kind = "ok" /\ issued = "power?"
  /\ outcome.ret = <<DATA>> /\ inbuf = <<>> /\ NFlush = 0
  /\ clean /\ ~overlapped /\ ncalls = 2

\* ---------------------------------------------------------------------- C20
\* C20: in every sequence of write and ask calls, made one after the other,
\* also after an echo error (which does not flush) or after a write with
\* check_ack=False whose command produced further lines, the value a
\* successful ask(c) returns is the data line the instrument sent in answer
\* to c, never a line it sent in answer to an earlier command.
C20_NoMisattribution ==
  (call.name = "ask" /\ outcome.kind = "ok" /\ ~overlapped) =>
    /\ Reads(events)[2].tag = "cur"
    /\ outcome.ret = <<Reads(events)[2].txt>>

====
